---- MODULE Spec2Model ----
(***************************************************************************)
(* A model of prwlock (src/prwlock/prwlock.py): a read-write lock whose    *)
(* native pthread_rwlock_t lives in an mmap'ed page shared by several      *)
(* RWLockPosix / RWLockOSX instances ("attachments").                      *)
(*                                                                         *)
(* Time is counted in ticks of 0.05 s, so SHORT_SLEEP (0.1 s) is 2 ticks.  *)
(* Timeouts are given in ticks.  Every process is single-threaded.         *)
(***************************************************************************)
EXTENDS Integers, FiniteSets, Sequences, TLC

\* ---------------------------------------------------------------- bounds
NInst == 2
NProc == 2
MaxHeld == 2
MaxDel == 2

Inst == 1..NInst
Pids == 1..NProc

\* ------------------------------------------------------------- constants
SHORT_SLEEP == 2
TicksPerSec == 10 * SHORT_SLEEP
\* Python's None is the empty sequence, any other value x is <<x>>
None == <<>>
Some(x) == <<x>>
Val(o) == o[1]
\* -0.5 s, 0 s, 0.2 s
Timeouts == {-10, 0, 4}
\* fractional part of the wall clock when a timed call starts: .0, .1, .5 s
Phases == {0, 2, 10}
\* the descriptor mkstemp returned for the shared page
LockFd == 3
\* mmap.PAGESIZE
PAGESIZE == 4096

VARIABLES
    platform,   \* "Linux" (native timed calls) or "Darwin" (emulated)
    cls,        \* "Posix" (RWLockPosix) or "OSX" (RWLockOSX)
    proc,       \* proc[i]: process the instance lives in, 0 = no such object
    fd,         \* self._fd
    pid,        \* self.pid
    nlocks,     \* self.nlocks
    has,        \* has[i]: which of _lockattr, _lock, _buf are not None
    pc,         \* where the instance's current call stands
    mode,       \* "rd" / "wr" of the acquire in progress
    tmo,        \* timeout argument of the acquire in progress
    left,       \* remaining budget (emulated) / time to the deadline (native)
    waited,     \* ticks spent waiting in the call in progress
    lk,         \* the native lock block of the shared page
    fdopen,     \* fdopen[p]: the descriptor is open in process p
    mapped,     \* mapped[i]: the instance's mmap is alive
    snap,       \* the snapshot produced by __getstate__, or None
    ev,         \* the call that returned in this step: instance, operation, result
    cnt,        \* nlocks at creation + acquires that returned True
                \* - releases that returned normally, on the instance
    tset,       \* the timeouts callers pass
    ndel,       \* how many times __del__ ran on the instance
    tdlog,      \* what the last __del__ of the instance attempted, in order
    s_pc,       \* where a call of __setup stands ("off": none in progress)
    s_arg,      \* the _fd argument of __setup
    s_fd, s_buf, s_lockattr, s_lock,    \* the locals fd, buf, lockattr, lock
    s_log,      \* the calls __setup and the finalizer made, in order
    s_fdstate,  \* descriptors mkstemp opened, close calls on each descriptor,
                \* whether the page is mapped
    s_raised,   \* __setup re-raised the failure
    s_self_fd,  \* self._fd, None while the attribute does not exist
    s_state,    \* the state given to __setstate__, None under __init__
    s_me,       \* the pid of the process that constructs the instance
    s_self,     \* self.pid and self.nlocks once the constructor has set them
    s_out,      \* what __getstate__ returned on the constructed instance
    s_plat,     \* the entry of the platform table the module was loaded with
    s_layout    \* the byte ranges of the views tmplock and tmplockattr

lockvars == <<platform, cls, proc, fd, pid, nlocks, has, pc, mode, tmo, left,
              waited, lk, fdopen, mapped, snap, ev, cnt, tset, ndel, tdlog>>
setupvars == <<s_pc, s_arg, s_fd, s_buf, s_lockattr, s_lock,
               s_log, s_fdstate, s_raised, s_self_fd,
               s_state, s_me, s_self, s_out, s_plat, s_layout>>
vars == <<lockvars, setupvars>>

\* ------------------------------------------------------ native lock block
\* L is a lock block: its signature, the instance through which the write
\* lock was taken (0: none) and the read locks taken through each instance
NoReaders == [j \in Inst |-> 0]
CanRd(L) == L.writer = 0
CanWr(L) == L.writer = 0 /\ \A j \in Inst : L.readers[j] = 0
Can(L, m) == IF m = "rd" THEN CanRd(L) ELSE CanWr(L)
Live(L) == L.sig = "init"
\* the calling thread (the process of instance i) holds the write lock
SelfWrites(L, i) == L.writer # 0 /\ proc[L.writer] = proc[i]
Locked(L, m, i) ==
    IF m = "rd" THEN [L EXCEPT !.readers[i] = @ + 1]
    ELSE [L EXCEPT !.writer = i]

error_check(rc) == rc \notin {"OK", "ETIMEDOUT", "EBUSY"}

_error_check(rc) == IF rc = "EDEADLK" THEN FALSE ELSE error_check(rc)

\* errcheck installed on the try calls
try_errcheck(rc) ==
    IF platform = "Darwin" THEN _error_check(rc) ELSE error_check(rc)

\* pthread_rwlock_tryrdlock / trywrlock: the set of (return code, lock block)
pthread_rwlock_try(L, m, i) ==
    IF ~Live(L) THEN {[rc |-> "EINVAL", lk |-> L]}
    ELSE IF Can(L, m) THEN {[rc |-> "OK", lk |-> Locked(L, m, i)]}
    ELSE IF platform = "Darwin" /\ L.writer # 0
         THEN {[rc |-> "EBUSY", lk |-> L], [rc |-> "EDEADLK", lk |-> L]}
    ELSE {[rc |-> "EBUSY", lk |-> L]}

\* pthread_rwlock_rdlock / pthread_rwlock_wrlock: what the call returns; the
\* empty set while the caller stays blocked
pthread_rwlock_lock(L, m, i) ==
    IF ~Live(L) THEN {[rc |-> "EINVAL", lk |-> L]}
    ELSE IF SelfWrites(L, i) THEN {[rc |-> "EDEADLK", lk |-> L]}
    ELSE IF Can(L, m) THEN {[rc |-> "OK", lk |-> Locked(L, m, i)]}
    ELSE {}

ValidTs(ts) == ts.tv_nsec >= 0 /\ ts.tv_nsec < TicksPerSec

\* pthread_rwlock_timedrdlock / timedwrlock with deadline ts, remaining ticks
\* to the deadline away: what the call returns; the empty set while the
\* caller stays blocked
pthread_rwlock_timedlock(L, m, i, ts, remaining) ==
    IF ~Live(L) THEN {[rc |-> "EINVAL", lk |-> L]}
    ELSE IF ~ValidTs(ts)
         THEN {[rc |-> "EINVAL", lk |-> L]}
              \cup (IF Can(L, m) /\ ~SelfWrites(L, i)
                    THEN {[rc |-> "OK", lk |-> Locked(L, m, i)]} ELSE {})
    ELSE IF SelfWrites(L, i) THEN {[rc |-> "EDEADLK", lk |-> L]}
    ELSE IF Can(L, m) THEN {[rc |-> "OK", lk |-> Locked(L, m, i)]}
    ELSE IF remaining <= 0 THEN {[rc |-> "ETIMEDOUT", lk |-> L]}
    ELSE {}

\* pthread_rwlock_unlock called by the thread of instance i
ReaderInsts(L, p) == {j \in Inst : proc[j] = p /\ L.readers[j] > 0}
pthread_rwlock_unlock(L, i) ==
    IF ~Live(L) THEN {[rc |-> "EINVAL", lk |-> L]}
    ELSE IF SelfWrites(L, i) THEN {[rc |-> "OK", lk |-> [L EXCEPT !.writer = 0]]}
    ELSE IF ReaderInsts(L, proc[i]) # {}
         THEN {[rc |-> "OK", lk |-> [L EXCEPT !.readers[j] = @ - 1]] :
                  j \in ReaderInsts(L, proc[i])}
    \* the calling thread holds nothing: undefined by POSIX. The call fails,
    \* or it takes away a lock some other thread holds, or it does nothing
    ELSE {[rc |-> "EPERM", lk |-> L]}
         \cup (IF L.writer # 0
               THEN {[rc |-> "OK", lk |-> [L EXCEPT !.writer = 0]]}
               ELSE {})
         \cup {[rc |-> "OK", lk |-> [L EXCEPT !.readers[j] = @ - 1]] :
                  j \in {j \in Inst : L.readers[j] > 0}}
         \cup (IF CanWr(L) THEN {[rc |-> "OK", lk |-> L]} ELSE {})

\* pthread_rwlock_destroy: glibc returns 0 and leaves the block alone; Darwin
\* checks and clears the signature
pthread_rwlock_destroy(L) ==
    IF platform = "Linux" THEN {[rc |-> "OK", lk |-> L]}
    ELSE IF ~Live(L) THEN {[rc |-> "EINVAL", lk |-> L]}
    ELSE IF ~CanWr(L) THEN {[rc |-> "EBUSY", lk |-> L]}
    ELSE {[rc |-> "OK", lk |-> [L EXCEPT !.sig = "zero"]]}

\* pthread_rwlockattr_destroy: returns 0 on both platforms
pthread_rwlockattr_destroy == {"OK"}

\* ------------------------------------------------------------ timeouts
TruncDiv(a, b) == IF a >= 0 THEN a \div b ELSE -((-a) \div b)

\* _get_timespec with the clock reading taken as second 0
_get_timespec(seconds) ==
    [tv_sec |-> TruncDiv(seconds, TicksPerSec),
     tv_nsec |-> seconds - TruncDiv(seconds, TicksPerSec) * TicksPerSec]

\* ticks from a clock reading with fractional part f to the deadline ts:
\* librt.time(None) has dropped f
Remaining(ts, f) == ts.tv_sec * TicksPerSec + ts.tv_nsec - f

\* seconds > 0.0 as IEEE-754 doubles compute it: subtracting 0.1 repeatedly
\* from 0.4, 0.5, ..., 1.3 leaves a positive residue where the reals give 0
IeeeResidue(T) == T % SHORT_SLEEP = 0 /\ T >= 8 /\ T <= 26
Positive(seconds, T) == seconds > 0 \/ (seconds = 0 /\ IeeeResidue(T))

\* --------------------------------------------------------------- events
\* arg: the call's argument (the timeout of an acquire, the snapshot of a
\* __setstate__) or None; rc: what the last native call of the call returned
Ev(i, op, res, arg, rc) ==
    [inst |-> i, op |-> op, res |-> res, arg |-> arg, rc |-> rc]
NoEv == Ev(0, "none", "none", None, "none")
OpName(m) == IF m = "rd" THEN "acquire_read" ELSE "acquire_write"

AllAttrs == {"_lockattr", "_lock", "_buf"}
Ready(i) == proc[i] # 0 /\ pc[i] = "idle" /\ has[i] = AllAttrs

\* no other instance of the same (single-threaded) process is inside a call
ProcFree(p) == \A j \in Inst : proc[j] = p => pc[j] = "idle"
Callable(i) == Ready(i) /\ ndel[i] = 0 /\ ProcFree(proc[i])

SetupUnchanged == UNCHANGED setupvars
Frame == UNCHANGED <<platform, cls, proc, fd, pid, has, fdopen, mapped, snap,
                     tset, ndel, tdlog>>

\* ---------------------------------------------------------------- Init
Variants == {<<"Linux", "Posix">>, <<"Darwin", "Posix">>, <<"Darwin", "OSX">>}

SetupIdle ==
    /\ s_pc = "off" /\ s_arg = None /\ s_fd = None
    /\ s_buf = FALSE /\ s_lockattr = FALSE /\ s_lock = FALSE
    /\ s_log = <<>> /\ s_fdstate = <<>>
    /\ s_raised = FALSE /\ s_self_fd = None
    /\ s_state = None /\ s_me = 1 /\ s_self = None /\ s_out = None
    /\ s_plat = None /\ s_layout = None

\* RWLockPosix.__init__ has run for instance 1 in process 1
InitLock(ts) ==
    /\ \E v \in Variants : platform = v[1] /\ cls = v[2]
    /\ proc = [i \in Inst |-> IF i = 1 THEN 1 ELSE 0]
    /\ fd = [i \in Inst |-> IF i = 1 THEN LockFd ELSE 0]
    /\ pid = [i \in Inst |-> IF i = 1 THEN 1 ELSE 0]
    /\ nlocks = [i \in Inst |-> 0]
    /\ has = [i \in Inst |-> IF i = 1 THEN AllAttrs ELSE {}]
    /\ pc = [i \in Inst |-> "idle"]
    /\ mode = [i \in Inst |-> "rd"]
    /\ tmo = [i \in Inst |-> None]
    /\ left = [i \in Inst |-> 0]
    /\ waited = [i \in Inst |-> 0]
    /\ lk = [sig |-> "init", writer |-> 0, readers |-> NoReaders]
    /\ fdopen = [p \in Pids |-> TRUE]
    /\ mapped = [i \in Inst |-> i = 1]
    /\ snap = None
    /\ ev = NoEv
    /\ cnt = [i \in Inst |-> 0]
    /\ tset = ts
    /\ ndel = [i \in Inst |-> 0]
    /\ tdlog = [i \in Inst |-> <<>>]

Init == InitLock(Timeouts) /\ SetupIdle

\* ------------------------------------------------------------- acquire
\* a variant that forgets to count
nlocks_incr_forgets(n) == n

\* self.nlocks += 1
nlocks_incr(n) == n + 1

\* the end of acquire_read / acquire_write: res is "acquired" (return True),
\* "not acquired" (return False) or "OSError"
Finish(i, res, rc, lk2) ==
    /\ ev' = Ev(i, OpName(mode[i]), res, tmo[i], rc)
    /\ lk' = lk2
    /\ nlocks' = [nlocks EXCEPT ![i] = IF res = "acquired" THEN nlocks_incr(@) ELSE @]
    /\ cnt' = [cnt EXCEPT ![i] = IF res = "acquired" THEN @ + 1 ELSE @]
    /\ pc' = [pc EXCEPT ![i] = "idle"]
    /\ mode' = [mode EXCEPT ![i] = "rd"]
    /\ tmo' = [tmo EXCEPT ![i] = None]
    /\ left' = [left EXCEPT ![i] = 0]
    /\ waited' = [waited EXCEPT ![i] = 0]
    /\ Frame

\* a step inside a call that does not return
Stay == ev' = NoEv /\ UNCHANGED <<lk, nlocks, cnt>> /\ Frame

\* what the blocking acquire does with the native return code: wrlock is in
\* API and so has errcheck, rdlock has none
blocking_result(m, rc) ==
    IF m = "wr" /\ error_check(rc) THEN "OSError" ELSE "acquired"

\* _pthread_rwlock_timedrdlock / _pthread_rwlock_timedwrlock
timed_result(rc) == IF rc = "ETIMEDOUT" THEN "not acquired" ELSE "acquired"

\* a variant that gives up one pass too early
loop_cond_early(seconds, T) == seconds > 2 * SHORT_SLEEP

\* while seconds > 0.0
loop_cond(seconds, T) == Positive(seconds, T)

\* the call enters the native blocking call, the native timed call (the
\* clock's fractional part being f) or the polling loop
acquire(m, i, T) ==
    /\ Callable(i)
    /\ nlocks[i] < MaxHeld
    /\ pc' = [pc EXCEPT ![i] =
                IF T = None THEN "block"
                ELSE IF platform = "Linux" THEN "twait" ELSE "poll"]
    /\ mode' = [mode EXCEPT ![i] = m]
    /\ tmo' = [tmo EXCEPT ![i] = T]
    /\ waited' = [waited EXCEPT ![i] = 0]
    /\ IF T = None THEN UNCHANGED left
       ELSE IF platform = "Linux"
       THEN \E f \in Phases :
               left' = [left EXCEPT ![i] = Remaining(_get_timespec(Val(T)), f)]
       ELSE left' = [left EXCEPT ![i] = Val(T)]
    /\ Stay

acquire_read(i, T) == acquire("rd", i, T) /\ SetupUnchanged
acquire_write(i, T) == acquire("wr", i, T) /\ SetupUnchanged

\* librt.pthread_rwlock_rdlock / wrlock returns
block_return(i) ==
    /\ pc[i] = "block"
    /\ \E o \in pthread_rwlock_lock(lk, mode[i], i) :
          Finish(i, blocking_result(mode[i], o.rc), o.rc, o.lk)
    /\ SetupUnchanged

\* librt.pthread_rwlock_timedrdlock / timedwrlock returns
timed_return(i) ==
    /\ pc[i] = "twait"
    /\ \E o \in pthread_rwlock_timedlock(lk, mode[i], i,
                                         _get_timespec(Val(tmo[i])), left[i]) :
          Finish(i, timed_result(o.rc), o.rc, o.lk)
    /\ SetupUnchanged

\* a tick passes while the caller is blocked in the native timed call
timed_tick(i) ==
    /\ pc[i] = "twait"
    /\ pthread_rwlock_timedlock(lk, mode[i], i,
                                _get_timespec(Val(tmo[i])), left[i]) = {}
    /\ left' = [left EXCEPT ![i] = @ - 1]
    /\ waited' = [waited EXCEPT ![i] = @ + 1]
    /\ UNCHANGED <<pc, mode, tmo>>
    /\ Stay
    /\ SetupUnchanged

\* _timedrdlock / _timedwrlock: one evaluation of the loop condition and, when
\* it holds, one pass of the loop body
_timedlock(i) ==
    /\ pc[i] = "poll"
    /\ SetupUnchanged
    /\ IF ~loop_cond(left[i], Val(tmo[i]))
       THEN Finish(i, "not acquired", "none", lk)
       ELSE \E o \in pthread_rwlock_try(lk, mode[i], i) :
              IF try_errcheck(o.rc)
              THEN Finish(i, "OSError", o.rc, lk)
              ELSE IF o.rc = "OK"
              THEN Finish(i, "acquired", o.rc, o.lk)
              ELSE /\ left' = [left EXCEPT ![i] = @ - SHORT_SLEEP]
                   /\ waited' = [waited EXCEPT ![i] = @ + SHORT_SLEEP]
                   /\ UNCHANGED <<pc, mode, tmo>>
                   /\ Stay

\* ------------------------------------------------------------- release
\* a variant that lets an instance holding nothing through
release_guard_negative(n) == n < 0

\* if self.nlocks == 0: raise ValueError
release_guard(n) == n = 0

\* self.nlocks -= 1
nlocks_decr(n) == n - 1

\* release() on instance i holding n, the lock block being L: how the call
\* ends ("ValueError", "OSError" or "ok") and the lock block it leaves
release_outcomes(L, i, n) ==
    IF release_guard(n)
    THEN {[res |-> "ValueError", rc |-> "none", lk |-> L]}
    ELSE {[res |-> IF error_check(o.rc) THEN "OSError" ELSE "ok",
           rc |-> o.rc, lk |-> o.lk] :
             o \in pthread_rwlock_unlock(L, i)}

release(i) ==
    /\ Callable(i)
    /\ \E o \in release_outcomes(lk, i, nlocks[i]) :
          /\ lk' = o.lk
          /\ nlocks' = [nlocks EXCEPT ![i] = IF o.res = "ok" THEN nlocks_decr(@) ELSE @]
          /\ cnt' = [cnt EXCEPT ![i] = IF o.res = "ok" THEN @ - 1 ELSE @]
          /\ ev' = Ev(i, "release", o.res, None, o.rc)
    /\ Frame
    /\ UNCHANGED <<pc, mode, tmo, left, waited>>
    /\ SetupUnchanged

\* ------------------------------------------------- snapshot and attach
getstate(i) == [fd |-> fd[i], pid |-> pid[i], nlocks |-> nlocks[i]]

__getstate__(i) ==
    /\ Callable(i)
    /\ snap' = Some(getstate(i))
    /\ ev' = NoEv
    /\ UNCHANGED <<platform, cls, proc, fd, pid, nlocks, has, pc, mode, tmo, left,
                   waited, lk, fdopen, mapped, cnt, tset, ndel, tdlog>>
    /\ SetupUnchanged

\* os.getpid() in process p
getpid(p) == p

\* a variant that keeps the snapshot's count whatever the pid
setstate_nlocks_keep(mypid, state) == state.nlocks

\* the nlocks __setstate__ leaves, in a process whose pid is mypid
setstate_nlocks(mypid, state) ==
    IF mypid = state.pid THEN state.nlocks ELSE 0

\* instance j is created in process p by unpickling the snapshot
__setstate__(j, p) ==
    /\ proc[j] = 0
    /\ snap # None
    /\ fdopen[p]
    /\ ProcFree(p)
    /\ proc' = [proc EXCEPT ![j] = p]
    /\ fd' = [fd EXCEPT ![j] = Val(snap).fd]
    /\ has' = [has EXCEPT ![j] = AllAttrs]
    /\ mapped' = [mapped EXCEPT ![j] = TRUE]
    /\ pid' = [pid EXCEPT ![j] = getpid(p)]
    /\ nlocks' = [nlocks EXCEPT ![j] = setstate_nlocks(getpid(p), Val(snap))]
    /\ cnt' = [cnt EXCEPT ![j] = nlocks'[j]]
    /\ snap' = None
    /\ ev' = Ev(j, "__setstate__", "ok", snap, "none")
    /\ UNCHANGED <<platform, cls, pc, mode, tmo, left, waited, lk, fdopen,
                   tset, ndel, tdlog>>
    /\ SetupUnchanged

\* ------------------------------------------------------------ teardown
\* mmap.close() while ctypes objects made by from_buffer are alive: Python 3
\* raises BufferError, Python 2 unmaps
buf_close(views) == IF views THEN {"BufferError", "ok"} ELSE {"ok"}

\* the part of the state a finalizer works on: the instance's attributes,
\* nlocks, the lock block, the mapping, the descriptor; what it attempted so
\* far (log) and the exception that ended it (exc)
TdStart(i) ==
    [has |-> has[i], n |-> nlocks[i], c |-> cnt[i], lk |-> lk,
     mapped |-> mapped[i], fdo |-> fdopen[proc[i]], log |-> <<>>, exc |-> "none"]

Logged(d, what) == [d EXCEPT !.log = Append(@, what)]

_del_lockattr(d) ==
    {IF error_check(rc)
     THEN [Logged(d, "attr") EXCEPT !.exc = "OSError"]
     ELSE [Logged(d, "attr") EXCEPT !.has = @ \ {"_lockattr"}] :
        rc \in pthread_rwlockattr_destroy}

\* for i in range(self.nlocks): self.release(), k passes being left
RECURSIVE release_loop(_, _, _)
release_loop(i, d, k) ==
    IF k = 0 THEN {d}
    ELSE UNION {IF o.res = "ok"
                THEN release_loop(i, [Logged(d, "unlock") EXCEPT
                                        !.n = nlocks_decr(@), !.c = @ - 1, !.lk = o.lk],
                                  k - 1)
                ELSE {[(IF o.res = "OSError" THEN Logged(d, "unlock") ELSE d)
                         EXCEPT !.exc = o.res]} :
                   o \in release_outcomes(d.lk, i, d.n)}

\* RWLockPosix._del_lock
posix_del_lock(i, d) ==
    UNION {IF e.exc # "none" THEN {e}
           ELSE {IF error_check(o.rc)
                 THEN [Logged(e, "lock") EXCEPT !.exc = "OSError"]
                 ELSE [Logged(e, "lock") EXCEPT !.lk = o.lk, !.has = @ \ {"_lock"}] :
                    o \in pthread_rwlock_destroy(e.lk)} :
              e \in release_loop(i, d, d.n)}

\* RWLockOSX._del_lock
osx_del_lock(i, d) == IF d.lk.sig # "zero" THEN posix_del_lock(i, d) ELSE {d}

_del_lock(i, d) == IF cls = "OSX" THEN osx_del_lock(i, d) ELSE posix_del_lock(i, d)

_del_buf(d) ==
    {IF r = "ok"
     THEN [Logged(d, "buf") EXCEPT !.has = @ \ {"_buf"}, !.mapped = FALSE]
     ELSE [Logged(d, "buf") EXCEPT !.exc = r] :
        r \in buf_close(d.has \cap {"_lock", "_lockattr"} # {})}

\* try: if hasattr(self, '_fd'): os.close(self._fd) / except OSError: pass
del_close(d) == [Logged(d, "fd") EXCEPT !.fdo = FALSE]

\* one pass of "for name in '_lockattr _lock _buf'" from each state of D
del_step(D, name, i) ==
    UNION {IF d.exc # "none" \/ name \notin d.has THEN {d}
           ELSE IF name = "_lockattr" THEN _del_lockattr(d)
           ELSE IF name = "_lock" THEN _del_lock(i, d)
           ELSE _del_buf(d) :
              d \in D}

\* the states __del__ can end in
del_outcomes(i) ==
    {IF d.exc # "none" THEN d ELSE del_close(d) :
        d \in del_step(del_step(del_step({TdStart(i)}, "_lockattr", i), "_lock", i),
                       "_buf", i)}

\* the finalizer of instance i runs
__del__(i) ==
    /\ proc[i] # 0
    /\ pc[i] = "idle"
    /\ ProcFree(proc[i])
    /\ ndel[i] < MaxDel
    /\ \E d \in del_outcomes(i) :
          /\ has' = [has EXCEPT ![i] = d.has]
          /\ nlocks' = [nlocks EXCEPT ![i] = d.n]
          /\ cnt' = [cnt EXCEPT ![i] = d.c]
          /\ lk' = d.lk
          /\ mapped' = [mapped EXCEPT ![i] = d.mapped]
          /\ fdopen' = [fdopen EXCEPT ![proc[i]] = d.fdo]
          /\ tdlog' = [tdlog EXCEPT ![i] = d.log]
          /\ ev' = Ev(i, "__del__", IF d.exc = "none" THEN "ok" ELSE d.exc, None, "none")
    /\ ndel' = [ndel EXCEPT ![i] = @ + 1]
    /\ UNCHANGED <<platform, cls, proc, fd, pid, pc, mode, tmo, left, waited, snap, tset>>
    /\ SetupUnchanged

\* ---------------------------------------------------------------- Next
TimeoutArgs == {None} \cup {Some(t) : t \in tset}

Next ==
    \/ \E i \in Inst, T \in TimeoutArgs : acquire_read(i, T)
    \/ \E i \in Inst, T \in TimeoutArgs : acquire_write(i, T)
    \/ \E i \in Inst : block_return(i)
    \/ \E i \in Inst : timed_return(i)
    \/ \E i \in Inst : timed_tick(i)
    \/ \E i \in Inst : _timedlock(i)
    \/ \E i \in Inst : release(i)
    \/ \E i \in Inst : __getstate__(i)
    \/ \E j \in Inst, p \in Pids : __setstate__(j, p)
    \/ \E i \in Inst : __del__(i)

Spec == Init /\ [][Next]_vars

\* the same lock with callers that pass 0 s, 0.15 s and 0.4 s
PollTimeouts == {0, 3, 8}
InitPoll == InitLock(PollTimeouts) /\ SetupIdle
SpecPoll == InitPoll /\ [][Next]_vars

\* ------------------------------------------------------------- __setup
\* descriptors mkstemp can return: 0 when the process has closed its standard
\* input, another free number otherwise
FreshFds == {0, 4}
\* the _fd argument: None (called from __init__) or a descriptor (called from
\* __setstate__)
SetupArgs == {None, Some(0), Some(LockFd)}

\* the states __setstate__ can be given: the descriptor, pid and nlocks that
\* __getstate__ recorded
SetupStates ==
    {[fd |-> Val(a), pid |-> p, nlocks |-> n] :
        a \in SetupArgs \ {None}, p \in Pids, n \in 0..MaxHeld}

\* the platform table: sizeof(pthread_rwlock_t), sizeof(pthread_rwlockattr_t)
\* and PTHREAD_PROCESS_SHARED for each supported system and architecture
Entry(os, arch, lock, attr, shared) ==
    [os |-> os, arch |-> arch, lock_size |-> lock, attr_size |-> attr,
     pshared |-> shared]
PlatformTable ==
    {Entry("Darwin", "any", 200, 24, 1),
     Entry("Linux", "64bit", 56, 8, 1),
     Entry("Linux", "32bit", 32, 8, 1),
     Entry("Linux", "other", 44, 8, 1),
     Entry("FreeBSD", "any", 8, 8, 0),
     Entry("OpenBSD", "any", 8, 8, 0),
     Entry("cygwin", "any", 8, 8, 0)}

\* a variant that puts the attribute view at the start of the page
view_offset_zero(pl) == 0

\* offset = ctypes.sizeof(pthread_rwlock_t)
view_offset(pl) == pl.lock_size

\* ctype.from_buffer(buf, offset): the bytes [lo, hi) of the page
from_buffer(size, offset) == [lo |-> offset, hi |-> offset + size]

\* tmplock and tmplockattr
views(pl) ==
    [lock |-> from_buffer(pl.lock_size, 0),
     attr |-> from_buffer(pl.attr_size, view_offset(pl))]

\* "if _fd:", "if fd:" on a descriptor or None
Truthy(o) == o # None /\ Val(o) # 0

Call(op, ok) == [op |-> op, ok |-> ok]
Did(op) == \E k \in DOMAIN s_log : s_log[k].op = op
DidOk(op) == \E k \in DOMAIN s_log : s_log[k] = Call(op, TRUE)

\* no lock object exists; the page of the backing file is zero-filled
NoLock ==
    /\ platform = "Linux" /\ cls = "Posix"
    /\ proc = [i \in Inst |-> 0]
    /\ fd = [i \in Inst |-> 0]
    /\ pid = [i \in Inst |-> 0]
    /\ nlocks = [i \in Inst |-> 0]
    /\ has = [i \in Inst |-> {}]
    /\ pc = [i \in Inst |-> "idle"]
    /\ mode = [i \in Inst |-> "rd"]
    /\ tmo = [i \in Inst |-> None]
    /\ left = [i \in Inst |-> 0]
    /\ waited = [i \in Inst |-> 0]
    /\ lk = [sig |-> "zero", writer |-> 0, readers |-> NoReaders]
    /\ fdopen = [p \in Pids |-> FALSE]
    /\ mapped = [i \in Inst |-> FALSE]
    /\ snap = None
    /\ ev = NoEv
    /\ cnt = [i \in Inst |-> 0]
    /\ tset = {}
    /\ ndel = [i \in Inst |-> 0]
    /\ tdlog = [i \in Inst |-> <<>>]

\* __setup(_fd) has been called: buf, lock, lockattr, fd = None, None, None, None
InitSetup ==
    /\ NoLock
    /\ s_pc = "start"
    /\ s_state \in {None} \cup {Some(st) : st \in SetupStates}
    /\ s_arg = (IF s_state = None THEN None ELSE Some(Val(s_state).fd))
    /\ s_me \in Pids
    /\ s_plat \in PlatformTable
    /\ s_self = None /\ s_out = None /\ s_layout = None
    /\ s_fd = None /\ s_buf = FALSE /\ s_lockattr = FALSE /\ s_lock = FALSE
    /\ s_log = <<>>
    /\ s_fdstate = [opened |-> {}, closes |-> [f \in FreshFds \cup {LockFd} |-> 0],
                    mapped |-> FALSE]
    /\ s_raised = FALSE
    /\ s_self_fd = None

LockUnchanged == UNCHANGED lockvars
\* the caller's arguments, the process and the platform stay what they are
InputsUnchanged == UNCHANGED <<s_state, s_me, s_plat>>

\* a step of __setup: the call op ended well or raised; the locals and the
\* descriptor table are set by the caller
SetupStep(op, ok, next) ==
    /\ s_log' = Append(s_log, Call(op, ok))
    /\ s_pc' = IF ok THEN next ELSE "except"
    /\ UNCHANGED <<s_arg, s_raised, s_self_fd>>
    /\ InputsUnchanged
    /\ LockUnchanged

\* the descriptor the caller passed is open, mkstemp cannot return it
InUse == IF s_arg = None THEN {} ELSE {Val(s_arg)}

\* if _fd: fd = _fd / else: fd, name = tempfile.mkstemp()
setup_open ==
    /\ s_pc = "start"
    /\ IF Truthy(s_arg)
       THEN /\ s_fd' = s_arg
            /\ s_pc' = "map"
            /\ UNCHANGED <<s_log, s_fdstate, s_arg, s_raised, s_self_fd>>
            /\ InputsUnchanged
            /\ LockUnchanged
       ELSE \/ /\ SetupStep("mkstemp", FALSE, "write")
               /\ UNCHANGED <<s_fd, s_fdstate>>
            \/ \E f \in FreshFds \ InUse :
                  /\ SetupStep("mkstemp", TRUE, "write")
                  /\ s_fd' = Some(f)
                  /\ s_fdstate' = [s_fdstate EXCEPT !.opened = @ \cup {f}]
    /\ UNCHANGED <<s_buf, s_lockattr, s_lock, s_self, s_out, s_layout>>

\* os.write(fd, b'\0' * mmap.PAGESIZE)
setup_write ==
    /\ s_pc = "write"
    /\ \E ok \in BOOLEAN : SetupStep("write", ok, "map")
    /\ UNCHANGED <<s_fd, s_buf, s_lockattr, s_lock, s_fdstate, s_self, s_out, s_layout>>

\* buf = mmap.mmap(fd, mmap.PAGESIZE, mmap.MAP_SHARED), and the views
\* tmplock, tmplockattr made by from_buffer
setup_mmap ==
    /\ s_pc = "map"
    /\ \E ok \in BOOLEAN :
          /\ SetupStep("mmap", ok, "views")
          /\ s_buf' = ok
          /\ s_fdstate' = [s_fdstate EXCEPT !.mapped = ok]
          /\ s_layout' = IF ok THEN Some(views(s_plat)) ELSE None
    /\ UNCHANGED <<s_fd, s_lockattr, s_lock, s_self, s_out>>

\* if _fd is None: librt.pthread_rwlockattr_init(lockattr_p); lockattr = tmplockattr
setup_attr_init ==
    /\ s_pc = "views" /\ s_arg = None
    /\ \E rc \in {"OK", "ENOMEM"} :
          /\ SetupStep("attr_init", ~error_check(rc), "setpshared")
          /\ s_lockattr' = ~error_check(rc)
    /\ UNCHANGED <<s_fd, s_buf, s_lock, s_fdstate, s_self, s_out, s_layout>>

\* librt.pthread_rwlockattr_setpshared(lockattr_p, PTHREAD_PROCESS_SHARED)
setup_setpshared ==
    /\ s_pc = "setpshared"
    /\ \E rc \in {"OK", "EINVAL"} :
          SetupStep("setpshared", ~error_check(rc), "lock_init")
    /\ UNCHANGED <<s_fd, s_buf, s_lockattr, s_lock, s_fdstate, s_self, s_out, s_layout>>

\* librt.pthread_rwlock_init(lock_p, lockattr_p); lock = tmplock
setup_lock_init ==
    /\ s_pc = "lock_init"
    /\ \E rc \in {"OK", "ENOMEM"} :
          /\ SetupStep("lock_init", ~error_check(rc), "assign")
          /\ s_lock' = ~error_check(rc)
    /\ UNCHANGED <<s_fd, s_buf, s_lockattr, s_fdstate, s_self, s_out, s_layout>>

\* else: lockattr = tmplockattr; lock = tmplock
setup_point ==
    /\ s_pc = "views" /\ s_arg # None
    /\ s_lockattr' = TRUE /\ s_lock' = TRUE
    /\ s_pc' = "assign"
    /\ UNCHANGED <<s_arg, s_fd, s_buf, s_log, s_fdstate, s_raised, s_self_fd,
                   s_self, s_out, s_layout>>
    /\ InputsUnchanged
    /\ LockUnchanged

\* self._fd = fd; self._buf = buf; self._lock = lock; ...
setup_assign ==
    /\ s_pc = "assign"
    /\ s_self_fd' = s_fd
    /\ s_pc' = "ready"
    /\ UNCHANGED <<s_arg, s_fd, s_buf, s_lockattr, s_lock, s_log, s_fdstate, s_raised,
                   s_self, s_out, s_layout>>
    /\ InputsUnchanged
    /\ LockUnchanged

\* a step of the except block: when the guard holds the call op is made and
\* ends well or raises, which is swallowed
UnwindStep(guard, op, next) ==
    /\ s_pc' = next
    /\ IF guard
       THEN \E ok \in BOOLEAN : s_log' = Append(s_log, Call(op, ok))
       ELSE UNCHANGED s_log
    /\ UNCHANGED <<s_arg, s_fd, s_self_fd, s_self, s_out, s_layout>>
    /\ InputsUnchanged
    /\ LockUnchanged

\* if lock: librt.pthread_rwlock_destroy(lock_p); lock_p, lock = None, None
unwind_lock ==
    /\ s_pc = "except"
    /\ UnwindStep(s_lock, "lock_destroy", "un_attr")
    /\ s_lock' = FALSE
    /\ UNCHANGED <<s_buf, s_lockattr, s_fdstate, s_raised>>

\* if lockattr: librt.pthread_rwlockattr_destroy(lockattr_p);
\* lockattr_p, lockattr = None, None
unwind_lockattr ==
    /\ s_pc = "un_attr"
    /\ UnwindStep(s_lockattr, "attr_destroy", "un_buf")
    /\ s_lockattr' = FALSE
    /\ UNCHANGED <<s_buf, s_lock, s_fdstate, s_raised>>

\* if buf: buf.close(); the page stays mapped when close raises
unwind_buf ==
    /\ s_pc = "un_buf"
    /\ UnwindStep(s_buf, "buf_close", "un_fd")
    /\ s_fdstate' = [s_fdstate EXCEPT !.mapped =
                        @ /\ ~(s_buf /\ s_log'[Len(s_log')].ok)]
    /\ UNCHANGED <<s_buf, s_lockattr, s_lock, s_raised>>

\* if fd: os.close(fd), then raise
unwind_fd ==
    /\ s_pc = "un_fd"
    /\ UnwindStep(Truthy(s_fd), "close", "failed")
    /\ s_fdstate' = IF Truthy(s_fd)
                    THEN [s_fdstate EXCEPT !.closes[Val(s_fd)] = @ + 1]
                    ELSE s_fdstate
    /\ s_raised' = TRUE
    /\ UNCHANGED <<s_buf, s_lockattr, s_lock>>

__setup ==
    \/ setup_open
    \/ setup_write
    \/ setup_mmap
    \/ setup_attr_init
    \/ setup_setpshared
    \/ setup_lock_init
    \/ setup_point
    \/ setup_assign
    \/ unwind_lock
    \/ unwind_lockattr
    \/ unwind_buf
    \/ unwind_fd

\* __del__ on the object whose __setup raised: no attribute _lockattr, _lock,
\* _buf exists; os.close(self._fd) is called when the attribute _fd exists
del_failed ==
    /\ s_pc = "failed"
    /\ s_pc' = "finalized"
    /\ IF s_self_fd # None
       THEN /\ s_log' = Append(s_log, Call("close", TRUE))
            /\ s_fdstate' = [s_fdstate EXCEPT !.closes[Val(s_self_fd)] = @ + 1]
       ELSE UNCHANGED <<s_log, s_fdstate>>
    /\ UNCHANGED <<s_arg, s_fd, s_buf, s_lockattr, s_lock, s_raised, s_self_fd,
                   s_self, s_out, s_layout>>
    /\ InputsUnchanged
    /\ LockUnchanged

\* the statements of __init__ / __setstate__ that follow the call of __setup:
\* self.nlocks = 0; self.pid = os.getpid() under __init__, the pid rule under
\* __setstate__
setup_finish ==
    /\ s_pc = "ready"
    /\ s_pc' = "built"
    /\ s_self' = Some([pid |-> getpid(s_me),
                       nlocks |-> IF s_state = None THEN 0
                                  ELSE setstate_nlocks(getpid(s_me), Val(s_state))])
    /\ UNCHANGED <<s_arg, s_fd, s_buf, s_lockattr, s_lock, s_log, s_fdstate,
                   s_raised, s_self_fd, s_out, s_layout>>
    /\ InputsUnchanged
    /\ LockUnchanged

\* __getstate__ on the instance just constructed
setup_getstate ==
    /\ s_pc = "built" /\ s_out = None
    /\ s_out' = Some([fd |-> Val(s_self_fd), pid |-> Val(s_self).pid,
                      nlocks |-> Val(s_self).nlocks])
    /\ UNCHANGED <<s_pc, s_arg, s_fd, s_buf, s_lockattr, s_lock, s_log, s_fdstate,
                   s_raised, s_self_fd, s_self, s_layout>>
    /\ InputsUnchanged
    /\ LockUnchanged

NextSetup == __setup \/ del_failed \/ setup_finish \/ setup_getstate

SpecSetup == InitSetup /\ [][NextSetup]_vars

\* ================================================================ claims
AcquireOps == {"acquire_read", "acquire_write"}
Parked == {"block", "twait", "poll"}
Range(q) == {q[k] : k \in DOMAIN q}

\* C1: whenever a timed acquire_read / acquire_write reports "acquired", no
\* other attachment holds the native lock for writing, and when it is an
\* acquire_write no other attachment holds it for reading either.
C1_MutualExclusion ==
    (ev.op \in AcquireOps /\ ev.arg # None /\ ev.res = "acquired") =>
        /\ lk.writer \in {0, ev.inst}
        /\ ev.op = "acquire_write" =>
              \A j \in Inst \ {ev.inst} : lk.readers[j] = 0

\* a step taken by instance i inside acquire_read before it has waited, the
\* lock being initialised and held by no writer
FirstLookNoWriter(i) ==
    /\ pc[i] \in Parked /\ mode[i] = "rd" /\ waited[i] = 0
    /\ Live(lk) /\ lk.writer = 0
    /\ (pc'[i] # pc[i] \/ waited'[i] # waited[i])

\* acquire_read on instance i returns "acquired" and counts the lock
ReadAcquired(i) ==
    /\ ev' = Ev(i, "acquire_read", "acquired", tmo[i], "OK")
    /\ nlocks'[i] = nlocks[i] + 1
    /\ lk'.readers[i] = lk.readers[i] + 1

\* C2 as stated: on a lock no writer holds, every acquire_read returns
\* "acquired" and increments nlocks.
C2_SharedReadAnyTimeout ==
    [][\A i \in Inst : FirstLookNoWriter(i) => ReadAcquired(i)]_vars

\* C2 amended: on a lock no writer holds, every acquire_read called with no
\* timeout or with a timeout above 0 returns "acquired" and increments nlocks.
C2_SharedRead ==
    [][\A i \in Inst :
          (FirstLookNoWriter(i) /\ (tmo[i] = None \/ Val(tmo[i]) > 0)) =>
             ReadAcquired(i)]_vars

\* two attachments hold the read lock at once, each having counted it
C2_Witness ==
    \E i, j \in Inst :
        /\ i # j
        /\ lk.readers[i] > 0 /\ lk.readers[j] > 0
        /\ nlocks[i] > 0 /\ nlocks[j] > 0
        /\ ev.op = "acquire_read" /\ ev.res = "acquired" /\ ev.arg # None

\* C3: nlocks of an instance is never negative and equals what it was created
\* with (0 for a constructed lock) plus the acquires that returned True minus
\* the releases that returned; an acquire that returns True adds exactly 1,
\* one that returns False adds nothing, a release that returns subtracts 1.
C3_HeldCount ==
    /\ [](\A i \in Inst : nlocks[i] >= 0 /\ nlocks[i] = cnt[i])
    /\ [][/\ (ev'.op \in AcquireOps /\ ev'.res = "acquired") =>
               nlocks'[ev'.inst] = nlocks[ev'.inst] + 1
          /\ (ev'.op \in AcquireOps /\ ev'.res = "not acquired") =>
               nlocks' = nlocks
          /\ (ev'.op = "release" /\ ev'.res = "ok") =>
               nlocks'[ev'.inst] = nlocks[ev'.inst] - 1]_vars

\* an instance released after having acquired twice
C3_Witness ==
    /\ ev.op = "release" /\ ev.res = "ok"
    /\ nlocks[ev.inst] = 1

\* C4: release() on an instance with nlocks = 0 raises ValueError, leaves the
\* native lock block as it is and leaves nlocks at 0.
C4_ReleaseUnheld ==
    [][\A i \in Inst :
          (ev'.op = "release" /\ ev'.inst = i /\ nlocks[i] = 0) =>
             ev'.res = "ValueError" /\ lk' = lk /\ nlocks'[i] = 0]_vars

\* release() failed on an instance that holds nothing while another
\* attachment holds the write lock
C4_Witness ==
    /\ ev.op = "release" /\ ev.res = "ValueError"
    /\ lk.writer \notin {0, ev.inst}
    /\ nlocks[ev.inst] = 0

\* C5: after __setstate__ the instance's pid is the attaching process's pid;
\* its nlocks is the snapshot's when that pid equals the snapshot's pid, and
\* 0 otherwise.
C5_Reattach ==
    (ev.op = "__setstate__") =>
        LET j == ev.inst
            state == Val(ev.arg)
        IN /\ pid[j] = getpid(proc[j])
           /\ getpid(proc[j]) = state.pid => nlocks[j] = state.nlocks
           /\ getpid(proc[j]) # state.pid => nlocks[j] = 0

\* a snapshot that recorded a held lock was attached in another process
C5_Witness ==
    /\ ev.op = "__setstate__"
    /\ Val(ev.arg).nlocks > 0
    /\ Val(ev.arg).pid # pid[ev.inst]
    /\ nlocks[ev.inst] = 0

\* C6: while the constructed lock (instance 1) holds the write lock it
\* acquired, acquire_read(timeout=0.2) from a second attachment returns "not
\* acquired"; once instance 1 has released it, an acquire_read() with no
\* timeout from a second attachment returns "acquired", the lock being held
\* for reading through that attachment.
C6_EndToEnd ==
    (ev.op = "acquire_read" /\ ev.inst # 1 /\ Live(lk)) =>
        /\ (ev.arg = Some(4) /\ lk.writer = 1 /\ nlocks[1] > 0) =>
              ev.res = "not acquired"
        /\ (ev.arg = None /\ lk.writer = 0) =>
              ev.res = "acquired" /\ lk.readers[ev.inst] > 0

\* C7: a timed acquire with timeout T > 0 that returns "not acquired", the
\* lock being write-locked through another attachment, has waited at least T, and at most T + SHORT_SLEEP on the emulated path, at
\* most T on the native path.
C7_TimedBound ==
    [][\A i \in Inst :
          (/\ pc[i] \in {"twait", "poll"}
           /\ lk.writer \notin {0, i}
           /\ ev'.inst = i /\ ev'.op \in AcquireOps /\ ev'.res = "not acquired"
           /\ Val(tmo[i]) > 0) =>
             /\ waited[i] >= Val(tmo[i])
             /\ pc[i] = "poll" => waited[i] <= Val(tmo[i]) + SHORT_SLEEP
             /\ pc[i] = "twait" => waited[i] <= Val(tmo[i])]_vars

\* the native locks held through instance i
Held(i) == lk.readers[i] + (IF lk.writer = i THEN 1 ELSE 0)

\* the place of an undo call in the order lock, attribute, mapping, descriptor
UnwindRank(op) ==
    CASE op = "lock_destroy" -> 1
      [] op = "attr_destroy" -> 2
      [] op = "buf_close" -> 3
      [] op = "close" -> 4
      [] OTHER -> 0

\* C8: when fresh construction has failed, the failure is re-raised, every
\* resource that was set up got its undo call (lock destroy, attribute
\* destroy, unmap, descriptor close) in that order, whichever undo call
\* failed, and every descriptor that was opened has been closed exactly once,
\* also after the finalizer has run.
C8_ConstructionUnwind ==
    (s_pc \in {"failed", "finalized"} /\ s_arg = None) =>
        /\ s_raised
        /\ DidOk("lock_init") => Did("lock_destroy")
        /\ DidOk("attr_init") => Did("attr_destroy")
        /\ DidOk("mmap") => Did("buf_close")
        /\ \A f \in s_fdstate.opened : s_fdstate.closes[f] = 1
        /\ \A k1, k2 \in DOMAIN s_log :
              (k1 < k2 /\ UnwindRank(s_log[k1].op) > 0) =>
                 UnwindRank(s_log[k1].op) < UnwindRank(s_log[k2].op)

\* C9: when __del__ runs on a READY instance whose nlocks is the number of
\* native locks held through it, the unmap and the descriptor close are
\* attempted, whatever happened to the earlier steps.
C9_TeardownBestEffort ==
    [][\A i \in Inst :
          (/\ Ready(i) /\ ndel[i] = 0 /\ Held(i) = nlocks[i]
           /\ ev'.op = "__del__" /\ ev'.inst = i) =>
             {"buf", "fd"} \subseteq Range(tdlog'[i])]_vars

\* C10: on the native path a timed acquire returns "not acquired" exactly when
\* the native call returned ETIMEDOUT, "acquired" only when it returned 0, and
\* raises for every other return code.
C10_NativeOutcome ==
    (platform = "Linux" /\ ev.op \in AcquireOps /\ ev.arg # None) =>
        /\ ev.res = "not acquired" <=> ev.rc = "ETIMEDOUT"
        /\ ev.res = "acquired" => ev.rc = "OK"
        /\ ev.rc \notin {"OK", "ETIMEDOUT"} => ev.res = "OSError"

\* C11: on an initialised lock, acquire_read() / acquire_write() with no
\* timeout never return "not acquired"; when one returns "acquired" the native
\* lock is held in the requested mode through that instance; a native return
\* code other than success ends the call with OSError.
C11_BlockingAcquire ==
    (ev.op \in AcquireOps /\ ev.arg = None /\ Live(lk)) =>
        /\ ev.res # "not acquired"
        /\ ev.res = "acquired" =>
              IF ev.op = "acquire_read" THEN lk.readers[ev.inst] > 0
              ELSE lk.writer = ev.inst
        /\ ev.rc # "OK" => ev.res = "OSError"

\* another attachment than i is READY, with its mapping alive and its
\* descriptor open
OthersAttached(i) ==
    \E j \in Inst \ {i} :
        Ready(j) /\ ndel[j] = 0 /\ mapped[j] /\ fdopen[proc[j]]

\* C12: the teardown of an instance that attached from a snapshot (any
\* instance but instance 1, which created the segment) leaves the native lock
\* block initialised while another attachment has its mapping alive and its
\* descriptor open.
C12_SegmentLifetime ==
    [][\A i \in Inst \ {1} :
          (/\ ev'.op = "__del__" /\ ev'.inst = i
           /\ Live(lk) /\ OthersAttached(i)) =>
             Live(lk')]_vars

\* n times "unlock"
Unlocks(n) == [k \in 1..n |-> "unlock"]

\* C14: the teardown of a READY instance that holds n locks destroys the
\* attribute block, issues n native releases, destroys the lock block, unmaps
\* and closes the descriptor, in that order, and leaves nlocks at 0.
C14_TeardownSequence ==
    [][\A i \in Inst :
          (/\ Ready(i) /\ ndel[i] = 0 /\ Held(i) = nlocks[i]
           /\ ev'.op = "__del__" /\ ev'.inst = i) =>
             /\ tdlog'[i] = <<"attr">> \o Unlocks(nlocks[i]) \o <<"lock", "buf", "fd">>
             /\ nlocks'[i] = 0]_vars

\* C15: the instance __setstate__ has just created has acquired nothing through
\* its own calls, so its nlocks equals the number of native locks held through
\* it, which is 0, whatever process it was attached in.
C15_OwnCount ==
    (ev.op = "__setstate__") => nlocks[ev.inst] = Held(ev.inst)

\* C17: with RWLockOSX, over the teardowns of all attachments of the page the
\* native destroy-lock is issued at most once.
C17_DestroyOnce ==
    (cls = "OSX") =>
        Cardinality({i \in Inst : "lock" \in Range(tdlog[i])}) <= 1

\* C19: the second teardown of an instance whose first teardown removed the
\* attribute block, the lock block and the mapping issues no native call, no
\* unmap and no descriptor close.
C19_TeardownOnce ==
    [][\A i \in Inst :
          (/\ ndel[i] = 1 /\ has[i] = {}
           /\ ev'.op = "__del__" /\ ev'.inst = i) =>
             tdlog'[i] = <<>>]_vars

\* C13: __getstate__ returns the descriptor, pid and nlocks of the instance;
\* taken on an instance attached from a state, it gives that state back when
\* the attaching process has the state's pid, and the state's descriptor with
\* the new pid and nlocks 0 otherwise.
C13_SnapshotRoundTrip ==
    (s_out # None) =>
        /\ Val(s_out) = [fd |-> Val(s_self_fd), pid |-> Val(s_self).pid,
                         nlocks |-> Val(s_self).nlocks]
        /\ s_state # None =>
              Val(s_out) = IF getpid(s_me) = Val(s_state).pid THEN Val(s_state)
                           ELSE [fd |-> Val(s_state).fd, pid |-> getpid(s_me),
                                 nlocks |-> 0]

\* C16: an attach that has completed uses the very descriptor it was given,
\* and has called neither mkstemp nor write nor the native attribute-init,
\* set-shared and lock-init.
C16_AttachConstruction ==
    (s_state # None /\ s_pc \in {"ready", "built"}) =>
        /\ s_self_fd = s_arg
        /\ \A op \in {"mkstemp", "write", "attr_init", "setpshared", "lock_init"} :
              ~Did(op)

\* C20: for every entry of the platform table the lock view is the bytes
\* [0, lock_size) of the page and the attribute view the bytes
\* [lock_size, lock_size + attr_size); the two do not overlap and end within
\* the page.
C20_PageLayout ==
    (s_layout # None) =>
        LET v == Val(s_layout)
        IN /\ v.lock = [lo |-> 0, hi |-> s_plat.lock_size]
           /\ v.attr = [lo |-> s_plat.lock_size,
                        hi |-> s_plat.lock_size + s_plat.attr_size]
           /\ v.lock.hi <= v.attr.lo
           /\ v.attr.hi <= PAGESIZE

\* the views of the largest entry have been made and construction completed
C20_Witness ==
    /\ s_layout # None
    /\ s_plat.os = "Darwin"
    /\ s_pc = "built"

\* a step taken by instance i inside the poll-and-sleep loop
PollStep(i) ==
    /\ pc[i] = "poll"
    /\ (pc'[i] # pc[i] \/ waited'[i] # waited[i])

\* failed tries made so far by the call in progress on instance i
Tries(i) == waited[i] \div SHORT_SLEEP

\* ceil(T / q) for T > 0
CeilDiv(T, q) == (T + q - 1) \div q

\* C18: on an initialised lock the emulated timed acquire with budget T and
\* quantum q keeps budget = T - time slept; a pass with budget > 0 returns
\* "acquired" when the try succeeds, without sleeping again, and sleeps one
\* quantum when the try returns EBUSY or EDEADLK; it returns "not acquired"
\* only with the budget used up, after exactly ceil(T / q) failed tries, and
\* after no try at all for T <= 0; the failed tries never exceed ceil(T / q),
\* so the call terminates.
C18_EmulatedTimed ==
    /\ [](\A i \in Inst :
            pc[i] = "poll" =>
               /\ left[i] = Val(tmo[i]) - waited[i]
               /\ waited[i] % SHORT_SLEEP = 0
               /\ Val(tmo[i]) > 0 =>
                     Tries(i) <= CeilDiv(Val(tmo[i]), SHORT_SLEEP)
               /\ Val(tmo[i]) <= 0 => Tries(i) = 0)
    /\ [][\A i \in Inst :
            (PollStep(i) /\ Live(lk)) =>
               LET T == Val(tmo[i])
                   budget == loop_cond(left[i], T)
                   returned == ev'.inst = i /\ ev'.op = OpName(mode[i])
               IN /\ (budget /\ Can(lk, mode[i])) =>
                        /\ returned /\ ev'.res = "acquired" /\ ev'.rc = "OK"
                        /\ Held(i)' = Held(i) + 1
                  /\ (budget /\ ~Can(lk, mode[i])) =>
                        /\ ev' = NoEv /\ lk' = lk
                        /\ waited'[i] = waited[i] + SHORT_SLEEP
                        /\ left'[i] = left[i] - SHORT_SLEEP
                  /\ ~budget =>
                        /\ returned /\ ev'.res = "not acquired" /\ lk' = lk
                        /\ nlocks' = nlocks
                        /\ Tries(i) = IF T <= 0 THEN 0
                                      ELSE CeilDiv(T, SHORT_SLEEP)]_vars
====
